---- MODULE Spec2Model ----
(***************************************************************************)
(* A model of yasl::link::ChannelBase (src/yasl/link/transport/channel.cc) *)
(* and of the ChunkedMessage assembler it uses.                            *)
(*                                                                         *)
(* Two specifications share the same channel operations:                   *)
(*   Spec      one Channel (endpoint "A") in an open environment: the      *)
(*             transport may call on_message / on_chunked_message with any *)
(*             key and payload, application threads call send, recv and    *)
(*             wait_link_task_finish;                                      *)
(*   SpecLink  two Channels "A" and "B" joined by a transport that delays, *)
(*             reorders and (within a budget) duplicates deliveries.       *)
(* Payloads are sequences of bytes.                                        *)
(***************************************************************************)
EXTENDS Bags, FiniteSets, Integers, Sequences, TLC

VARIABLES
  msg_db,               \* [endpoint -> [subset of keys -> payload]]   msg_db_
  chunked_values,       \* [endpoint -> [subset of keys -> assembler id]]
  asm,                  \* assembler id -> ChunkedMessage object (heap)
  sent_msg_count,       \* [endpoint -> Nat]
  received_msg_count,   \* [endpoint -> Nat]
  ack_msg_count,        \* [endpoint -> Nat]
  peer_sent_msg_count,  \* [endpoint -> Nat]
  received_fin,         \* [endpoint -> BOOLEAN]
  waiting_finish,       \* [endpoint -> BOOLEAN]
  throttle_window_size, \* [endpoint -> Nat]  (0 disables throttling)
  sendq,                \* [endpoint -> bag of messages] async send queue
  net,                  \* [endpoint -> bag of messages] on the wire, sent by that endpoint
  pc,                   \* [endpoint -> [app thread -> position]]
  loc,                  \* [endpoint -> [app thread -> locals of the running call]]
  res,                  \* [endpoint -> [app thread -> outcome of the last finished call]]
  acted,                \* [endpoint -> [app thread -> channel fields the running/last call changed]]
  cpc,                  \* [transport thread -> position inside OnChunkedMessage]
  cloc,                 \* [transport thread -> locals of OnChunkedMessage]
  cberr,                \* [endpoint -> error raised by the last inbound callback]
  emitted,              \* [endpoint -> number of ACKs the endpoint handed to the transport]
  timeouts,             \* [endpoint -> number of sends that ended with ThrottleTimeout]
  budget,               \* what the environment has used up of its bounds
  cmsg,                 \* the fragmented message the transport is delivering
  pubs,                 \* the reassembled payloads published so far, in order
  got,                  \* [endpoint -> payloads the transport has delivered to it]
  listeners,            \* [subset of ranks -> channel]   ReceiverLoopBase::listeners_
  add_listener_err      \* error raised by the last AddListener call

vars == << msg_db, chunked_values, asm, sent_msg_count, received_msg_count,
           ack_msg_count, peer_sent_msg_count, received_fin, waiting_finish,
           throttle_window_size, sendq, net, pc, loc, res, acted, cpc, cloc,
           cberr, emitted, timeouts, budget, cmsg, pubs, got,
                  listeners, add_listener_err >>

(***************************************************************************)
(* Bounds of the model.                                                    *)
(***************************************************************************)
NumAppThreads == 2
NumTransportThreads == 2
MaxSend == 2
MaxIn == 2
MaxDup == 1
MaxChunks == 2
MaxInChunk == 1
MaxWindow == 2
MaxFinCount == 1
MaxRank == 2
MaxChunkDups == 1

(***************************************************************************)
(* Program constants.                                                      *)
(***************************************************************************)
kSizeofSizeT == 8

kAckKey == "ACK"   \* stands for the bytes 'A','C','K',0x01,0x00
kFinKey == "FIN"   \* stands for the bytes 'F','I','N',0x01,0x00

Endpoints == {"A", "B"}
Peer(e) == IF e = "A" THEN "B" ELSE "A"
AppKeys == {"x", "y"}
AllKeys == AppKeys \cup {kAckKey, kFinKey}
Payloads == {<<1>>, <<2>>}
AppThreads == 1..NumAppThreads
TransportThreads == 1..NumTransportThreads

\* A key check that forgets the FIN key.
IsReservedKeyAckOnly(key) == key = kAckKey

IsReservedKey(key) == key = kAckKey \/ key = kFinKey

(***************************************************************************)
(* The FIN payload: memcpy of a size_t, 8 bytes, least significant first.  *)
(***************************************************************************)
RECURSIVE ShiftRightBytes(_, _)
ShiftRightBytes(n, k) == IF k = 0 THEN n ELSE ShiftRightBytes(n \div 256, k - 1)

EncodeCount(n) == [i \in 1..kSizeofSizeT |-> ShiftRightBytes(n, i - 1) % 256]

RECURSIVE DecodeFrom(_, _)
DecodeFrom(v, i) ==
  IF i > Len(v) THEN 0 ELSE v[i] + 256 * DecodeFrom(v, i + 1)

DecodeCount(v) == DecodeFrom(v, 1)

Msg(key, val) == [key |-> key, val |-> val]
AckMsg == Msg(kAckKey, <<>>)

RECURSIVE Copies(_, _)
Copies(m, n) == IF n = 0 THEN EmptyBag ELSE SetToBag({m}) (+) Copies(m, n - 1)

BagAdd(b, m) == b (+) SetToBag({m})
BagRemove(b, m) == b (-) SetToBag({m})

Restrict(f, S) == [k \in S |-> f[k]]
Insert(f, k, v) == [j \in DOMAIN f \cup {k} |-> IF j = k THEN v ELSE f[j]]

NoLoc == [key |-> "", val |-> <<>>, wait_count |-> 0]
NoRes == [st |-> "none", val |-> <<>>]
Outcome(st, val) == [st |-> st, val |-> val]

SendPcs == {"fetch_add", "throttle"}
FinishPcs == {"send_fin", "wait_fin", "wait_msg", "wait_async", "wait_ack", "finished"}

InFinish(e) == \E t \in AppThreads : pc[e][t] \in FinishPcs
InSend(e) == \E t \in AppThreads : pc[e][t] \in SendPcs
Sending(e) == Cardinality({t \in AppThreads : pc[e][t] = "fetch_add"})

(***************************************************************************)
(* The channel fields of endpoint e that a step changed.                   *)
(***************************************************************************)
Effects(e) ==
  (IF msg_db'[e] # msg_db[e] THEN {"inbound_store"} ELSE {}) \cup
  (IF sent_msg_count'[e] # sent_msg_count[e] THEN {"sent_count"} ELSE {}) \cup
  (IF received_msg_count'[e] # received_msg_count[e] THEN {"received_count"} ELSE {}) \cup
  (IF ack_msg_count'[e] # ack_msg_count[e] THEN {"ack_count"} ELSE {}) \cup
  (IF peer_sent_msg_count'[e] # peer_sent_msg_count[e] THEN {"peer_sent_count"} ELSE {}) \cup
  (IF received_fin'[e] # received_fin[e] THEN {"received_fin"} ELSE {}) \cup
  (IF waiting_finish'[e] # waiting_finish[e] THEN {"waiting_finish"} ELSE {}) \cup
  (IF sendq'[e] # sendq[e] \/ net'[e] # net[e] THEN {"handed"} ELSE {})

ChanUnchanged ==
  UNCHANGED << msg_db, chunked_values, asm, sent_msg_count, received_msg_count,
               ack_msg_count, peer_sent_msg_count, received_fin, waiting_finish,
               throttle_window_size, sendq, net >>

ChunkUnchanged == UNCHANGED << chunked_values, asm, cpc, cloc >>

ThreadUnchanged == UNCHANGED << pc, loc, res, acted >>


(***************************************************************************)
(* The transport primitives the Channel consumes.  SendAsyncImpl enqueues  *)
(* on the async send queue, SendImpl returns once the transport accepted   *)
(* the bytes; both are given as the new value of the queue / the wire.     *)
(***************************************************************************)
SendAsyncImpl(e, m, n) == [sendq EXCEPT ![e] = @ (+) Copies(m, n)]
SendImpl(e, m) == [net EXCEPT ![e] = BagAdd(@, m)]

(***************************************************************************)
(* Steps of an application thread t of endpoint e.                         *)
(***************************************************************************)
Begin(e, t, p, l) ==
  /\ pc' = [pc EXCEPT ![e][t] = p]
  /\ loc' = [loc EXCEPT ![e][t] = l]
  /\ res' = [res EXCEPT ![e][t] = NoRes]
  /\ acted' = [acted EXCEPT ![e][t] = Effects(e)]

Step(e, t, p, l) ==
  /\ pc' = [pc EXCEPT ![e][t] = p]
  /\ loc' = [loc EXCEPT ![e][t] = l]
  /\ UNCHANGED res
  /\ acted' = [acted EXCEPT ![e][t] = @ \cup Effects(e)]

Return(e, t, out) ==
  /\ pc' = [pc EXCEPT ![e][t] = "idle"]
  /\ loc' = [loc EXCEPT ![e][t] = NoLoc]
  /\ res' = [res EXCEPT ![e][t] = out]
  /\ acted' = [acted EXCEPT ![e][t] = @ \cup Effects(e)]

\* A call that raises before it did anything.
Reject(e, t, err) ==
  /\ ChanUnchanged
  /\ UNCHANGED << pc, loc, emitted, timeouts >>
  /\ res' = [res EXCEPT ![e][t] = Outcome(err, <<>>)]
  /\ acted' = [acted EXCEPT ![e][t] = {}]

\* The application sends only before it starts wait_link_task_finish, and
\* at most MaxSend messages per endpoint.
MaySend(e) == ~InFinish(e) /\ sent_msg_count[e] + Sending(e) < budget.max_send[e]

\* SendAsync, lines 181-184: the key check, then SendAsyncImpl.
SendAsync(e, t, key, val) ==
  /\ pc[e][t] = "idle"
  /\ IF IsReservedKey(key)
       THEN Reject(e, t, "InvalidKey")
       ELSE /\ MaySend(e)
            /\ sendq' = SendAsyncImpl(e, Msg(key, val), 1)
            /\ UNCHANGED << msg_db, chunked_values, asm, sent_msg_count,
                            received_msg_count, ack_msg_count, peer_sent_msg_count,
                            received_fin, waiting_finish, throttle_window_size, net,
                            emitted, timeouts >>
            /\ Begin(e, t, "fetch_add", NoLoc)
  /\ UNCHANGED << cpc, cloc, cberr, budget, cmsg, pubs, got,
                  listeners, add_listener_err >>

\* Send, lines 195-198: the key check, then SendImpl.
Send(e, t, key, val) ==
  /\ pc[e][t] = "idle"
  /\ IF IsReservedKey(key)
       THEN Reject(e, t, "InvalidKey")
       ELSE /\ MaySend(e)
            /\ net' = SendImpl(e, Msg(key, val))
            /\ UNCHANGED << msg_db, chunked_values, asm, sent_msg_count,
                            received_msg_count, ack_msg_count, peer_sent_msg_count,
                            received_fin, waiting_finish, throttle_window_size, sendq,
                            emitted, timeouts >>
            /\ Begin(e, t, "fetch_add", NoLoc)
  /\ UNCHANGED << cpc, cloc, cberr, budget, cmsg, pubs, got,
                  listeners, add_listener_err >>

\* A send that waits on the value fetch_add returns, without the + 1.
FetchAddPreIncrement(e, t) ==
  /\ pc[e][t] = "fetch_add"
  /\ sent_msg_count' = [sent_msg_count EXCEPT ![e] = @ + 1]
  /\ UNCHANGED << msg_db, chunked_values, asm, received_msg_count, ack_msg_count,
                  peer_sent_msg_count, received_fin, waiting_finish,
                  throttle_window_size, sendq, net, emitted, timeouts >>
  /\ IF throttle_window_size[e] = 0
       THEN Return(e, t, Outcome("ok", <<>>))
       ELSE Step(e, t, "throttle",
                 [loc[e][t] EXCEPT !.wait_count = sent_msg_count[e]])
  /\ UNCHANGED << cpc, cloc, cberr, budget, cmsg, pubs, got,
                  listeners, add_listener_err >>

\* Lines 185 / 199 and 203-206: sent_msg_count_.fetch_add(1) + 1 is the wait
\* count; ThrottleWindowWait returns at once when the window is 0.
FetchAdd(e, t) ==
  /\ pc[e][t] = "fetch_add"
  /\ sent_msg_count' = [sent_msg_count EXCEPT ![e] = @ + 1]
  /\ UNCHANGED << msg_db, chunked_values, asm, received_msg_count, ack_msg_count,
                  peer_sent_msg_count, received_fin, waiting_finish,
                  throttle_window_size, sendq, net, emitted, timeouts >>
  /\ IF throttle_window_size[e] = 0
       THEN Return(e, t, Outcome("ok", <<>>))
       ELSE Step(e, t, "throttle",
                 [loc[e][t] EXCEPT !.wait_count = sent_msg_count[e] + 1])
  /\ UNCHANGED << cpc, cloc, cberr, budget, cmsg, pubs, got,
                  listeners, add_listener_err >>

\* A wait predicate with >= for >.
ThrottlePredicateAtLeast(e, wait_count) ==
  \/ throttle_window_size[e] = 0
  \/ ack_msg_count[e] + throttle_window_size[e] >= wait_count

\* The predicate of the wait in ThrottleWindowWait, lines 209-212.
ThrottlePredicate(e, wait_count) ==
  \/ throttle_window_size[e] = 0
  \/ ack_msg_count[e] + throttle_window_size[e] > wait_count

\* wait_for returned true: the send call returns.
ThrottleReturn(e, t) ==
  /\ pc[e][t] = "throttle"
  /\ ThrottlePredicate(e, loc[e][t].wait_count)
  /\ ChanUnchanged
  /\ UNCHANGED << emitted, timeouts >>
  /\ Return(e, t, Outcome("ok", <<>>))
  /\ UNCHANGED << cpc, cloc, cberr, budget, cmsg, pubs, got,
                  listeners, add_listener_err >>

\* wait_for returned false after recv_timeout_ms: line 213 throws.
ThrottleTimeout(e, t) ==
  /\ pc[e][t] = "throttle"
  /\ ~ThrottlePredicate(e, loc[e][t].wait_count)
  /\ ChanUnchanged
  /\ UNCHANGED emitted
  /\ timeouts' = [timeouts EXCEPT ![e] = @ + 1]
  /\ Return(e, t, Outcome("ThrottleTimeout", <<>>))
  /\ UNCHANGED << cpc, cloc, cberr, budget, cmsg, pubs, got,
                  listeners, add_listener_err >>

\* Recv, lines 68-75: the key check, then the wait on msg_db_cond_.
Recv(e, t, key) ==
  /\ pc[e][t] = "idle"
  /\ IF IsReservedKey(key)
       THEN Reject(e, t, "InvalidKey")
       ELSE /\ ChanUnchanged
            /\ UNCHANGED << emitted, timeouts >>
            /\ Begin(e, t, "recv_wait", [NoLoc EXCEPT !.key = key])
  /\ UNCHANGED << cpc, cloc, cberr, budget, cmsg, pubs, got,
                  listeners, add_listener_err >>

\* A wait predicate that copies the value and leaves the entry in msg_db_.
RecvTakeNoErase(e, t) ==
  /\ pc[e][t] = "recv_wait"
  /\ loc[e][t].key \in DOMAIN msg_db[e]
  /\ UNCHANGED << msg_db, chunked_values, asm, sent_msg_count, received_msg_count,
                  ack_msg_count, peer_sent_msg_count, received_fin, waiting_finish,
                  throttle_window_size, sendq, net, emitted, timeouts >>
  /\ Step(e, t, "recv_ack", [loc[e][t] EXCEPT !.val = msg_db[e][loc[e][t].key]])
  /\ UNCHANGED << cpc, cloc, cberr, budget, cmsg, pubs, got,
                  listeners, add_listener_err >>

\* The wait predicate found the key, lines 77-84: the value is moved out and
\* the entry erased, under msg_mutex_.
RecvTake(e, t) ==
  /\ pc[e][t] = "recv_wait"
  /\ loc[e][t].key \in DOMAIN msg_db[e]
  /\ msg_db' = [msg_db EXCEPT ![e] = Restrict(@, DOMAIN @ \ {loc[e][t].key})]
  /\ UNCHANGED << chunked_values, asm, sent_msg_count, received_msg_count,
                  ack_msg_count, peer_sent_msg_count, received_fin, waiting_finish,
                  throttle_window_size, sendq, net, emitted, timeouts >>
  /\ Step(e, t, "recv_ack", [loc[e][t] EXCEPT !.val = msg_db[e][loc[e][t].key]])
  /\ UNCHANGED << cpc, cloc, cberr, budget, cmsg, pubs, got,
                  listeners, add_listener_err >>

\* A recv that sends its ACK although the wait timed out.
RecvTimeoutWithAck(e, t) ==
  /\ pc[e][t] = "recv_wait"
  /\ loc[e][t].key \notin DOMAIN msg_db[e]
  /\ sendq' = SendAsyncImpl(e, AckMsg, 1)
  /\ emitted' = [emitted EXCEPT ![e] = @ + 1]
  /\ UNCHANGED << msg_db, chunked_values, asm, sent_msg_count, received_msg_count,
                  ack_msg_count, peer_sent_msg_count, received_fin, waiting_finish,
                  throttle_window_size, net, timeouts >>
  /\ Return(e, t, Outcome("RecvTimeout", <<>>))
  /\ UNCHANGED << cpc, cloc, cberr, budget, cmsg, pubs, got,
                  listeners, add_listener_err >>

\* The wait timed out with the key still absent: line 86 throws.
RecvTimeout(e, t) ==
  /\ pc[e][t] = "recv_wait"
  /\ loc[e][t].key \notin DOMAIN msg_db[e]
  /\ ChanUnchanged
  /\ UNCHANGED << emitted, timeouts >>
  /\ Return(e, t, Outcome("RecvTimeout", <<>>))
  /\ UNCHANGED << cpc, cloc, cberr, budget, cmsg, pubs, got,
                  listeners, add_listener_err >>

\* A recv that sends its ACK twice.
RecvAckTwice(e, t) ==
  /\ pc[e][t] = "recv_ack"
  /\ sendq' = SendAsyncImpl(e, AckMsg, 2)
  /\ emitted' = [emitted EXCEPT ![e] = @ + 2]
  /\ UNCHANGED << msg_db, chunked_values, asm, sent_msg_count, received_msg_count,
                  ack_msg_count, peer_sent_msg_count, received_fin, waiting_finish,
                  throttle_window_size, net, timeouts >>
  /\ Return(e, t, Outcome("ok", loc[e][t].val))
  /\ UNCHANGED << cpc, cloc, cberr, budget, cmsg, pubs, got,
                  listeners, add_listener_err >>

\* Line 89-91: the ACK is handed to the transport outside the lock, then
\* the value is returned.
RecvAck(e, t) ==
  /\ pc[e][t] = "recv_ack"
  /\ sendq' = SendAsyncImpl(e, AckMsg, 1)
  /\ emitted' = [emitted EXCEPT ![e] = @ + 1]
  /\ UNCHANGED << msg_db, chunked_values, asm, sent_msg_count, received_msg_count,
                  ack_msg_count, peer_sent_msg_count, received_fin, waiting_finish,
                  throttle_window_size, net, timeouts >>
  /\ Return(e, t, Outcome("ok", loc[e][t].val))
  /\ UNCHANGED << cpc, cloc, cberr, budget, cmsg, pubs, got,
                  listeners, add_listener_err >>

(***************************************************************************)
(* wait_link_task_finish, lines 262-277, run by thread t.  One call per    *)
(* endpoint, started when no send of the endpoint is still running.        *)
(***************************************************************************)
\* A drain that sends a single ACK for all the unread entries.
StopReceivingOneAck(e, t) ==
  /\ pc[e][t] = "idle"
  /\ ~InFinish(e)
  /\ ~InSend(e)
  /\ waiting_finish' = [waiting_finish EXCEPT ![e] = TRUE]
  /\ sendq' = SendAsyncImpl(e, AckMsg, IF DOMAIN msg_db[e] = {} THEN 0 ELSE 1)
  /\ emitted' = [emitted EXCEPT ![e] = @ + IF DOMAIN msg_db[e] = {} THEN 0 ELSE 1]
  /\ msg_db' = [msg_db EXCEPT ![e] = << >>]
  /\ UNCHANGED << chunked_values, asm, sent_msg_count, received_msg_count,
                  ack_msg_count, peer_sent_msg_count, received_fin,
                  throttle_window_size, net, timeouts >>
  /\ Begin(e, t, "send_fin", NoLoc)
  /\ UNCHANGED << cpc, cloc, cberr, budget, cmsg, pubs, got,
                  listeners, add_listener_err >>

\* A drain that clears msg_db_ without acknowledging the unread entries.
StopReceivingWithoutAck(e, t) ==
  /\ pc[e][t] = "idle"
  /\ ~InFinish(e)
  /\ ~InSend(e)
  /\ waiting_finish' = [waiting_finish EXCEPT ![e] = TRUE]
  /\ msg_db' = [msg_db EXCEPT ![e] = << >>]
  /\ UNCHANGED << chunked_values, asm, sent_msg_count, received_msg_count,
                  ack_msg_count, peer_sent_msg_count, received_fin,
                  throttle_window_size, sendq, net, emitted, timeouts >>
  /\ Begin(e, t, "send_fin", NoLoc)
  /\ UNCHANGED << cpc, cloc, cberr, budget, cmsg, pubs, got,
                  listeners, add_listener_err >>

\* Lines 240-248, under msg_mutex_: set waiting_finish_, one ACK per unread
\* entry, clear msg_db_.
StopReceivingAndAckUnreadMsgs(e, t) ==
  /\ pc[e][t] = "idle"
  /\ ~InFinish(e)
  /\ ~InSend(e)
  /\ waiting_finish' = [waiting_finish EXCEPT ![e] = TRUE]
  /\ sendq' = SendAsyncImpl(e, AckMsg, Cardinality(DOMAIN msg_db[e]))
  /\ emitted' = [emitted EXCEPT ![e] = @ + Cardinality(DOMAIN msg_db[e])]
  /\ msg_db' = [msg_db EXCEPT ![e] = << >>]
  /\ UNCHANGED << chunked_values, asm, sent_msg_count, received_msg_count,
                  ack_msg_count, peer_sent_msg_count, received_fin,
                  throttle_window_size, net, timeouts >>
  /\ Begin(e, t, "send_fin", NoLoc)
  /\ UNCHANGED << cpc, cloc, cberr, budget, cmsg, pubs, got,
                  listeners, add_listener_err >>

\* Lines 218-221: the FIN carries sent_msg_count_ as read here.
SendFin(e, t) ==
  /\ pc[e][t] = "send_fin"
  /\ sendq' = SendAsyncImpl(e, Msg(kFinKey, EncodeCount(sent_msg_count[e])), 1)
  /\ UNCHANGED << msg_db, chunked_values, asm, sent_msg_count, received_msg_count,
                  ack_msg_count, peer_sent_msg_count, received_fin, waiting_finish,
                  throttle_window_size, net, emitted, timeouts >>
  /\ Step(e, t, "wait_fin", NoLoc)
  /\ UNCHANGED << cpc, cloc, cberr, budget, cmsg, pubs, got,
                  listeners, add_listener_err >>

\* A wait of the shutdown sequence whose predicate holds: go on to p.
Proceed(e, t, p) ==
  /\ ChanUnchanged
  /\ UNCHANGED << emitted, timeouts >>
  /\ Step(e, t, p, NoLoc)
  /\ UNCHANGED << cpc, cloc, cberr, budget, cmsg, pubs, got,
                  listeners, add_listener_err >>

\* A shutdown that does not wait for the peer's FIN.
WaitForFinNoWait(e, t) ==
  /\ pc[e][t] = "wait_fin"
  /\ Proceed(e, t, "wait_msg")

\* Lines 222-225: wait on ack_fin_cond_ until received_fin_.
WaitForFin(e, t) ==
  /\ pc[e][t] = "wait_fin"
  /\ received_fin[e]
  /\ Proceed(e, t, "wait_msg")

\* Lines 226-237: wait until received_msg_count_ >= peer_sent_msg_count_.
WaitForFlyingMsg(e, t) ==
  /\ pc[e][t] = "wait_msg"
  /\ received_msg_count[e] >= peer_sent_msg_count[e]
  /\ Proceed(e, t, "wait_async")

\* Line 273: wait until the async send queue is empty.
WaitAsyncSendToFinish(e, t) ==
  /\ pc[e][t] = "wait_async"
  /\ sendq[e] = EmptyBag
  /\ Proceed(e, t, "wait_ack")

\* Lines 250-260: wait until ack_msg_count_ >= sent_msg_count_; then
\* WaitLinkTaskFinish returns.
WaitForFlyingAck(e, t) ==
  /\ pc[e][t] = "wait_ack"
  /\ ack_msg_count[e] >= sent_msg_count[e]
  /\ Proceed(e, t, "finished")

(***************************************************************************)
(* The inbound surface.  These give the effect of the callback on the      *)
(* channel of e; the caller says what happens to the wire and the threads. *)
(***************************************************************************)
\* An insertion that sends an ACK for every payload, stored or dropped.
OnNormalMessageAckAlways(e, key, v) ==
  /\ received_msg_count' = [received_msg_count EXCEPT ![e] = @ + 1]
  /\ sendq' = SendAsyncImpl(e, AckMsg, 1)
  /\ emitted' = [emitted EXCEPT ![e] = @ + 1]
  /\ IF ~waiting_finish[e] /\ key \notin DOMAIN msg_db[e]
       THEN msg_db' = [msg_db EXCEPT ![e] = Insert(@, key, v)]
       ELSE UNCHANGED msg_db

\* An insertion that drops a payload without an ACK while draining.
OnNormalMessageDrainSilent(e, key, v) ==
  /\ received_msg_count' = [received_msg_count EXCEPT ![e] = @ + 1]
  /\ IF ~waiting_finish[e]
       THEN IF key \notin DOMAIN msg_db[e]
              THEN /\ msg_db' = [msg_db EXCEPT ![e] = Insert(@, key, v)]
                   /\ UNCHANGED << sendq, emitted >>
              ELSE /\ sendq' = SendAsyncImpl(e, AckMsg, 1)
                   /\ emitted' = [emitted EXCEPT ![e] = @ + 1]
                   /\ UNCHANGED msg_db
       ELSE UNCHANGED << msg_db, sendq, emitted >>

\* An insertion with the test of waiting_finish_ inverted.
OnNormalMessageInverted(e, key, v) ==
  /\ received_msg_count' = [received_msg_count EXCEPT ![e] = @ + 1]
  /\ IF waiting_finish[e]
       THEN IF key \notin DOMAIN msg_db[e]
              THEN /\ msg_db' = [msg_db EXCEPT ![e] = Insert(@, key, v)]
                   /\ UNCHANGED << sendq, emitted >>
              ELSE /\ sendq' = SendAsyncImpl(e, AckMsg, 1)
                   /\ emitted' = [emitted EXCEPT ![e] = @ + 1]
                   /\ UNCHANGED msg_db
       ELSE /\ sendq' = SendAsyncImpl(e, AckMsg, 1)
            /\ emitted' = [emitted EXCEPT ![e] = @ + 1]
            /\ UNCHANGED msg_db

\* An insertion that overwrites an unread entry (insert_or_assign).
OnNormalMessageLastWins(e, key, v) ==
  /\ received_msg_count' = [received_msg_count EXCEPT ![e] = @ + 1]
  /\ IF ~waiting_finish[e]
       THEN /\ msg_db' = [msg_db EXCEPT ![e] = Insert(@, key, v)]
            /\ IF key \notin DOMAIN msg_db[e]
                 THEN UNCHANGED << sendq, emitted >>
                 ELSE /\ sendq' = SendAsyncImpl(e, AckMsg, 1)
                      /\ emitted' = [emitted EXCEPT ![e] = @ + 1]
       ELSE /\ sendq' = SendAsyncImpl(e, AckMsg, 1)
            /\ emitted' = [emitted EXCEPT ![e] = @ + 1]
            /\ UNCHANGED msg_db

\* OnNormalMessage, lines 94-107 (the caller holds msg_mutex_).
OnNormalMessage(e, key, v) ==
  /\ received_msg_count' = [received_msg_count EXCEPT ![e] = @ + 1]
  /\ IF ~waiting_finish[e]
       THEN IF key \notin DOMAIN msg_db[e]
              THEN /\ msg_db' = [msg_db EXCEPT ![e] = Insert(@, key, v)]
                   /\ UNCHANGED << sendq, emitted >>
              ELSE /\ sendq' = SendAsyncImpl(e, AckMsg, 1)
                   /\ emitted' = [emitted EXCEPT ![e] = @ + 1]
                   /\ UNCHANGED msg_db
       ELSE /\ sendq' = SendAsyncImpl(e, AckMsg, 1)
            /\ emitted' = [emitted EXCEPT ![e] = @ + 1]
            /\ UNCHANGED msg_db

\* A FIN branch without the test of received_fin_.
OnFinLastWins(e, value) ==
  IF Len(value) # kSizeofSizeT
    THEN /\ cberr' = [cberr EXCEPT ![e] = "EnforceNotMet"]
         /\ UNCHANGED << received_fin, peer_sent_msg_count >>
    ELSE /\ cberr' = [cberr EXCEPT ![e] = "none"]
         /\ received_fin' = [received_fin EXCEPT ![e] = TRUE]
         /\ peer_sent_msg_count' =
              [peer_sent_msg_count EXCEPT ![e] = DecodeCount(value)]

\* The FIN branch of OnMessage, lines 115-120.
OnFin(e, value) ==
  IF Len(value) # kSizeofSizeT
    THEN /\ cberr' = [cberr EXCEPT ![e] = "EnforceNotMet"]
         /\ UNCHANGED << received_fin, peer_sent_msg_count >>
    ELSE /\ cberr' = [cberr EXCEPT ![e] = "none"]
         /\ IF ~received_fin[e]
              THEN /\ received_fin' = [received_fin EXCEPT ![e] = TRUE]
                   /\ peer_sent_msg_count' =
                        [peer_sent_msg_count EXCEPT ![e] = DecodeCount(value)]
              ELSE UNCHANGED << received_fin, peer_sent_msg_count >>

\* A dispatch that counts an ACK as a received message too.
OnMessageCountsAck(e, key, value) ==
  IF key = kAckKey
    THEN /\ ack_msg_count' = [ack_msg_count EXCEPT ![e] = @ + 1]
         /\ received_msg_count' = [received_msg_count EXCEPT ![e] = @ + 1]
         /\ cberr' = [cberr EXCEPT ![e] = "none"]
         /\ UNCHANGED << msg_db, peer_sent_msg_count, received_fin, sendq, emitted >>
    ELSE IF key = kFinKey
      THEN /\ OnFin(e, value)
           /\ UNCHANGED << msg_db, received_msg_count, ack_msg_count, sendq,
                           emitted >>
      ELSE /\ OnNormalMessage(e, key, value)
           /\ cberr' = [cberr EXCEPT ![e] = "none"]
           /\ UNCHANGED << ack_msg_count, peer_sent_msg_count, received_fin >>

\* OnMessage, lines 109-124.
OnMessage(e, key, value) ==
  IF key = kAckKey
    THEN /\ ack_msg_count' = [ack_msg_count EXCEPT ![e] = @ + 1]
         /\ cberr' = [cberr EXCEPT ![e] = "none"]
         /\ UNCHANGED << msg_db, received_msg_count, peer_sent_msg_count,
                         received_fin, sendq, emitted >>
    ELSE IF key = kFinKey
      THEN /\ OnFin(e, value)
           /\ UNCHANGED << msg_db, received_msg_count, ack_msg_count, sendq,
                           emitted >>
      ELSE /\ OnNormalMessage(e, key, value)
           /\ cberr' = [cberr EXCEPT ![e] = "none"]
           /\ UNCHANGED << ack_msg_count, peer_sent_msg_count, received_fin >>

\* What OnMessage never touches.
OnMessageFrame ==
  UNCHANGED << chunked_values, asm, sent_msg_count, waiting_finish,
               throttle_window_size, pc, loc, res, acted, cpc, cloc, timeouts,
               cmsg, pubs, listeners, add_listener_err >>

(***************************************************************************)
(* The transport.                                                          *)
(***************************************************************************)
\* The async send queue puts one queued message on the wire.
AsyncFlush(e) ==
  /\ \E m \in BagToSet(sendq[e]) :
       /\ sendq' = [sendq EXCEPT ![e] = BagRemove(@, m)]
       /\ net' = [net EXCEPT ![e] = BagAdd(@, m)]
  /\ UNCHANGED << msg_db, chunked_values, asm, sent_msg_count, received_msg_count,
                  ack_msg_count, peer_sent_msg_count, received_fin, waiting_finish,
                  throttle_window_size, pc, loc, res, acted, cpc, cloc, cberr,
                  emitted, timeouts, budget, cmsg, pubs, got,
                  listeners, add_listener_err >>

\* Spec: a queued message leaves the async send queue for the peer.
Transmit(e) ==
  /\ \E m \in BagToSet(sendq[e]) : sendq' = [sendq EXCEPT ![e] = BagRemove(@, m)]
  /\ UNCHANGED << msg_db, chunked_values, asm, sent_msg_count, received_msg_count,
                  ack_msg_count, peer_sent_msg_count, received_fin, waiting_finish,
                  throttle_window_size, net, pc, loc, res, acted, cpc, cloc, cberr,
                  emitted, timeouts, budget, cmsg, pubs, got,
                  listeners, add_listener_err >>

\* SpecLink: a message the peer put on the wire reaches e, in any order.
Deliver(e) ==
  /\ \E m \in BagToSet(net[Peer(e)]) :
       /\ OnMessage(e, m.key, m.val)
       /\ net' = [net EXCEPT ![Peer(e)] = BagRemove(@, m)]
       /\ got' = [got EXCEPT ![e] = IF IsReservedKey(m.key) THEN @ ELSE @ \cup {m.val}]
  /\ OnMessageFrame
  /\ UNCHANGED budget

\* SpecLink: the transport delivers a message and keeps it for a retry.
Duplicate(e) ==
  /\ budget.dups < budget.max_dup
  /\ \E m \in BagToSet(net[Peer(e)]) :
       /\ OnMessage(e, m.key, m.val)
       /\ got' = [got EXCEPT ![e] = IF IsReservedKey(m.key) THEN @ ELSE @ \cup {m.val}]
  /\ budget' = [budget EXCEPT !.dups = @ + 1]
  /\ OnMessageFrame
  /\ UNCHANGED net

\* Spec: the payloads the environment may give on_message under a key.
InboundValues(key) ==
  IF key = kAckKey THEN {<< >>}
  ELSE IF key = kFinKey
    THEN {EncodeCount(n) : n \in 0..MaxFinCount} \cup {<<1>>}
    ELSE Payloads

\* Spec: the transport calls on_message with any key and payload; budget.fins
\* counts the well-formed FINs among these calls.
EnvOnMessage(e) ==
  /\ budget.nin < budget.max_in
  /\ \E key \in AllKeys : \E value \in InboundValues(key) :
       /\ OnMessage(e, key, value)
       /\ budget' = [budget EXCEPT
            !.nin = @ + 1,
            !.fins = @ + IF key = kFinKey /\ Len(value) = kSizeofSizeT THEN 1 ELSE 0]
  /\ OnMessageFrame
  /\ UNCHANGED << net, got >>

\* Spec: the transport carries a message of e away to the peer.
Carry(e) ==
  /\ \E m \in BagToSet(net[e]) : net' = [net EXCEPT ![e] = BagRemove(@, m)]
  /\ UNCHANGED << msg_db, chunked_values, asm, sent_msg_count, received_msg_count,
                  ack_msg_count, peer_sent_msg_count, received_fin, waiting_finish,
                  throttle_window_size, sendq, pc, loc, res, acted, cpc, cloc,
                  cberr, emitted, timeouts, budget, cmsg, pubs, got,
                  listeners, add_listener_err >>

(***************************************************************************)
(* class ChunkedMessage, lines 29-66.  An object is a record               *)
(* [num_chunks, chunks, message_size]; chunks maps a set of indices to     *)
(* fragments (std::map, iterated in ascending index order).                *)
(***************************************************************************)
NewChunkedMessage(num_chunks) ==
  [num_chunks |-> num_chunks, chunks |-> << >>, message_size |-> 0]

\* Line 36: chunks_.emplace(index, data) keeps an entry that is there.
EmplaceChunk(m, index, data) ==
  IF index \in DOMAIN m.chunks THEN m
  ELSE [m EXCEPT !.chunks = Insert(@, index, data)]

\* Line 37: message_size_ += data.size().
AddSize(m, data) == [m EXCEPT !.message_size = @ + Len(data)]

\* Line 44.
IsFullyFilled(m) == Cardinality(DOMAIN m.chunks) = m.num_chunks

\* The fragments in ascending index order, from index i on (lines 49-53).
RECURSIVE ConcatFrom(_, _, _)
ConcatFrom(chunks, i, top) ==
  IF i > top THEN << >>
  ELSE (IF i \in DOMAIN chunks THEN chunks[i] ELSE << >>)
         \o ConcatFrom(chunks, i + 1, top)

MaxIndex(chunks) == CHOOSE i \in DOMAIN chunks : \A j \in DOMAIN chunks : j <= i

Concat(chunks) ==
  IF DOMAIN chunks = {} THEN << >> ELSE ConcatFrom(chunks, 0, MaxIndex(chunks))

\* Reassemble, lines 46-57: a Buffer of message_size_ bytes receives the
\* fragments.  Bytes of the buffer that no fragment covers are not
\* initialised (pad); fragments that do not fit are written past its end,
\* which is undefined: overflow flags it, and buf is then only what the
\* Buffer itself holds.
Reassemble(m, pad) ==
  LET all == Concat(m.chunks)
  IN [buf |-> IF Len(all) >= m.message_size
                THEN SubSeq(all, 1, m.message_size)
                ELSE all \o [i \in 1..(m.message_size - Len(all)) |-> pad],
      overflow |-> Len(all) > m.message_size]

Reassembled(m) == [m EXCEPT !.chunks = << >>, !.message_size = 0]

ChunkKey == "x"
ChunkVals == {<<7>>, <<8, 9>>}
PadBytes == {0, 170}
NoCloc == [key |-> "", value |-> << >>, idx |-> 0, data |-> 0, buf |-> << >>,
           overflow |-> FALSE]

ChunkFrame ==
  UNCHANGED << msg_db, sent_msg_count, received_msg_count, ack_msg_count,
               peer_sent_msg_count, received_fin, waiting_finish,
               throttle_window_size, sendq, net, pc, loc, res, acted, emitted,
               timeouts, cmsg, pubs, got, listeners, add_listener_err >>

(***************************************************************************)
(* OnChunkedMessage, lines 126-173, run by transport thread c on the       *)
(* channel of e.                                                           *)
(***************************************************************************)
\* Lines 129-146: the two checks, then find-or-create under
\* chunked_values_mutex_.
OnChunkedMessage(e, c, key, value, chunk_idx, num_chunks) ==
  /\ cpc[c] = "idle"
  /\ IF IsReservedKey(key)
       THEN /\ cberr' = [cberr EXCEPT ![e] = "EnforceNotMet"]
            /\ UNCHANGED << chunked_values, asm, cpc, cloc, budget >>
       ELSE IF chunk_idx >= num_chunks
         THEN /\ cberr' = [cberr EXCEPT ![e] = "LogicError"]
              /\ UNCHANGED << chunked_values, asm, cpc, cloc, budget >>
         ELSE /\ IF chunk_idx \in budget.chunks_given
                   THEN /\ budget.chunk_dups < budget.max_chunk_dups
                        /\ budget' = [budget EXCEPT !.chunk_dups = @ + 1]
                   ELSE budget' = [budget EXCEPT !.chunks_given = @ \cup {chunk_idx}]
              /\ cberr' = [cberr EXCEPT ![e] = "none"]
              /\ IF key \in DOMAIN chunked_values[e]
                   THEN /\ UNCHANGED << chunked_values, asm >>
                        /\ cloc' = [cloc EXCEPT ![c] =
                             [NoCloc EXCEPT !.key = key, !.value = value,
                                            !.idx = chunk_idx,
                                            !.data = chunked_values[e][key]]]
                   ELSE /\ asm' = Append(asm, NewChunkedMessage(num_chunks))
                        /\ chunked_values' =
                             [chunked_values EXCEPT ![e] = Insert(@, key, Len(asm) + 1)]
                        /\ cloc' = [cloc EXCEPT ![c] =
                             [NoCloc EXCEPT !.key = key, !.value = value,
                                            !.idx = chunk_idx,
                                            !.data = Len(asm) + 1]]
              /\ cpc' = [cpc EXCEPT ![c] = "add_chunk"]
  /\ ChunkFrame

\* AddChunk, lines 35-36: take the assembler's mutex, emplace the fragment.
AddChunkEmplace(c) ==
  /\ cpc[c] = "add_chunk"
  /\ \A d \in TransportThreads :
       ~(cpc[d] = "add_size" /\ cloc[d].data = cloc[c].data)
  /\ asm' = [asm EXCEPT ![cloc[c].data] = EmplaceChunk(@, cloc[c].idx, cloc[c].value)]
  /\ cpc' = [cpc EXCEPT ![c] = "add_size"]
  /\ UNCHANGED << chunked_values, cloc, cberr, budget >>
  /\ ChunkFrame

\* AddChunk, line 37-38: add the size, release the mutex.
AddChunkSize(c) ==
  /\ cpc[c] = "add_size"
  /\ asm' = [asm EXCEPT ![cloc[c].data] = AddSize(@, cloc[c].value)]
  /\ cpc' = [cpc EXCEPT ![c] = "is_full"]
  /\ UNCHANGED << chunked_values, cloc, cberr, budget >>
  /\ ChunkFrame

\* Line 151: IsFullyFilled() reads chunks_.size() without the assembler's
\* mutex; a thread that does not see it full falls through and returns.
CheckFullyFilled(c) ==
  /\ cpc[c] = "is_full"
  /\ cpc' = [cpc EXCEPT ![c] =
       IF IsFullyFilled(asm[cloc[c].data]) THEN "erase" ELSE "idle"]
  /\ cloc' = [cloc EXCEPT ![c] =
       IF IsFullyFilled(asm[cloc[c].data]) THEN @ ELSE NoCloc]
  /\ UNCHANGED << chunked_values, asm, cberr, budget >>
  /\ ChunkFrame

\* Lines 153-163, under chunked_values_mutex_: return when the key is gone
\* from the table, erase it otherwise.
EraseFromTable(e, c) ==
  /\ cpc[c] = "erase"
  /\ IF cloc[c].key \notin DOMAIN chunked_values[e]
       THEN /\ cpc' = [cpc EXCEPT ![c] = "idle"]
            /\ cloc' = [cloc EXCEPT ![c] = NoCloc]
            /\ UNCHANGED chunked_values
       ELSE /\ chunked_values' =
                 [chunked_values EXCEPT ![e] = Restrict(@, DOMAIN @ \ {cloc[c].key})]
            /\ cpc' = [cpc EXCEPT ![c] = "reassemble"]
            /\ UNCHANGED cloc
  /\ UNCHANGED << asm, cberr, budget >>
  /\ ChunkFrame

\* Line 168: data->Reassemble(), without any lock.
DoReassemble(c) ==
  /\ cpc[c] = "reassemble"
  /\ \E pad \in PadBytes :
       cloc' = [cloc EXCEPT ![c].buf = Reassemble(asm[cloc[c].data], pad).buf,
                            ![c].overflow = Reassemble(asm[cloc[c].data], pad).overflow]
  /\ asm' = [asm EXCEPT ![cloc[c].data] = Reassembled(@)]
  /\ cpc' = [cpc EXCEPT ![c] = "publish"]
  /\ UNCHANGED << chunked_values, cberr, budget >>
  /\ ChunkFrame

\* Lines 169-170: OnNormalMessage under msg_mutex_.
PublishReassembled(e, c) ==
  /\ cpc[c] = "publish"
  /\ OnNormalMessage(e, cloc[c].key, cloc[c].buf)
  /\ pubs' = Append(pubs, [key |-> cloc[c].key, buf |-> cloc[c].buf,
                           overflow |-> cloc[c].overflow,
                           draining |-> waiting_finish[e],
                           in_table |-> /\ cloc[c].key \in DOMAIN chunked_values[e]
                                        /\ chunked_values[e][cloc[c].key] = cloc[c].data])
  /\ cpc' = [cpc EXCEPT ![c] = "idle"]
  /\ cloc' = [cloc EXCEPT ![c] = NoCloc]
  /\ UNCHANGED << chunked_values, asm, sent_msg_count, ack_msg_count,
                  peer_sent_msg_count, received_fin, waiting_finish,
                  throttle_window_size, net, pc, loc, res, acted, cberr, timeouts,
                  budget, cmsg, got, listeners, add_listener_err >>

\* The transport hands thread c a fragment of the message in flight, or a
\* call the Channel must reject.
ChunkArrives(e, c) ==
  \E key \in {ChunkKey, kAckKey, kFinKey} : \E idx \in 0..cmsg.num_chunks :
    OnChunkedMessage(e, c, key, cmsg.data[idx % cmsg.num_chunks], idx,
                     cmsg.num_chunks)

(***************************************************************************)
(* ReceiverLoopBase, lines 279-285: the registry of listeners by rank.     *)
(***************************************************************************)
Ranks == 0..MaxRank
Channels == {"c1", "c2", "c3"}

RegistryFrame ==
  /\ ChanUnchanged
  /\ UNCHANGED << pc, loc, res, acted, cpc, cloc, cberr, emitted, timeouts,
                  budget, cmsg, pubs, got >>

\* A registration that replaces the listener of a rank (insert_or_assign).
AddListenerLastWins(rank, listener) ==
  /\ listeners' = Insert(listeners, rank, listener)
  /\ add_listener_err' = IF rank \in DOMAIN listeners THEN "LogicError" ELSE "none"
  /\ RegistryFrame

\* AddListener, lines 279-285: listeners_.emplace keeps an entry that is
\* there; the call throws when nothing was inserted.
AddListener(rank, listener) ==
  /\ IF rank \in DOMAIN listeners
       THEN /\ UNCHANGED listeners
            /\ add_listener_err' = "LogicError"
       ELSE /\ listeners' = Insert(listeners, rank, listener)
            /\ add_listener_err' = "none"
  /\ RegistryFrame

(***************************************************************************)
(* Specifications.                                                         *)
(***************************************************************************)
InitChannel ==
  /\ msg_db = [e \in Endpoints |-> << >>]
  /\ chunked_values = [e \in Endpoints |-> << >>]
  /\ asm = << >>
  /\ sent_msg_count = [e \in Endpoints |-> 0]
  /\ received_msg_count = [e \in Endpoints |-> 0]
  /\ ack_msg_count = [e \in Endpoints |-> 0]
  /\ peer_sent_msg_count = [e \in Endpoints |-> 0]
  /\ received_fin = [e \in Endpoints |-> FALSE]
  /\ waiting_finish = [e \in Endpoints |-> FALSE]
  /\ sendq = [e \in Endpoints |-> EmptyBag]
  /\ net = [e \in Endpoints |-> EmptyBag]
  /\ loc = [e \in Endpoints |-> [t \in AppThreads |-> NoLoc]]
  /\ res = [e \in Endpoints |-> [t \in AppThreads |-> NoRes]]
  /\ acted = [e \in Endpoints |-> [t \in AppThreads |-> {}]]
  /\ cpc = [c \in TransportThreads |-> "idle"]
  /\ cloc = [c \in TransportThreads |-> NoCloc]
  /\ cberr = [e \in Endpoints |-> "none"]
  /\ emitted = [e \in Endpoints |-> 0]
  /\ timeouts = [e \in Endpoints |-> 0]
  /\ pubs = << >>
  /\ got = [e \in Endpoints |-> {}]
  /\ listeners = << >>
  /\ add_listener_err = "none"

AppStep(e, t, keys, vals) ==
  \/ \E key \in keys : \E val \in vals : SendAsync(e, t, key, val)
  \/ \E key \in keys : \E val \in vals : Send(e, t, key, val)
  \/ FetchAdd(e, t)
  \/ ThrottleReturn(e, t)
  \/ ThrottleTimeout(e, t)
  \/ \E key \in keys : Recv(e, t, key)
  \/ RecvTake(e, t)
  \/ RecvTimeout(e, t)
  \/ RecvAck(e, t)
  \/ StopReceivingAndAckUnreadMsgs(e, t)
  \/ SendFin(e, t)
  \/ WaitForFin(e, t)
  \/ WaitForFlyingMsg(e, t)
  \/ WaitAsyncSendToFinish(e, t)
  \/ WaitForFlyingAck(e, t)

NoChunked == [num_chunks |-> 0, data |-> << >>]

InitLink ==
  /\ InitChannel
  /\ pc = [e \in Endpoints |-> [t \in AppThreads |-> IF t = 1 THEN "idle" ELSE "off"]]
  /\ budget = [nin |-> 0, fins |-> 0, dups |-> 0, max_in |-> 0, max_dup |-> MaxDup,
               max_send |-> [e \in Endpoints |-> IF e = "A" THEN MaxSend ELSE MaxSend - 1],
               chunks_given |-> {}, chunk_dups |-> 0, max_chunk_dups |-> 0]
  /\ cmsg = NoChunked
  /\ throttle_window_size = [e \in Endpoints |-> MaxWindow]

NextLink ==
  \/ \E e \in Endpoints : \E t \in AppThreads :
       AppStep(e, t, AppKeys, {<<sent_msg_count[e] + 1>>})
  \/ \E e \in Endpoints : AsyncFlush(e)
  \/ \E e \in Endpoints : Deliver(e)
  \/ \E e \in Endpoints : Duplicate(e)

SpecLink == InitLink /\ [][NextLink]_vars

\* The two Channels over a transport that delivers every message handed to
\* it exactly once; every step a thread or the transport can take is taken
\* in the end (calls are the application's choice and are not forced).
InitLinkFair ==
  /\ InitChannel
  /\ throttle_window_size = [e \in Endpoints |-> MaxWindow]
  /\ pc = [e \in Endpoints |-> [t \in AppThreads |-> IF t = 1 THEN "idle" ELSE "off"]]
  /\ budget = [nin |-> 0, fins |-> 0, dups |-> 0, max_in |-> 0, max_dup |-> 0,
               max_send |-> [e \in Endpoints |-> IF e = "A" THEN MaxSend ELSE MaxSend - 1],
               chunks_given |-> {}, chunk_dups |-> 0, max_chunk_dups |-> 0]
  /\ cmsg = NoChunked

NextLinkFair ==
  \/ \E e \in Endpoints : \E t \in AppThreads :
       AppStep(e, t, AppKeys, {<<sent_msg_count[e] + 1>>})
  \/ \E e \in Endpoints : AsyncFlush(e)
  \/ \E e \in Endpoints : Deliver(e)

Continue(e, t) ==
  \/ FetchAdd(e, t)
  \/ ThrottleReturn(e, t)
  \/ ThrottleTimeout(e, t)
  \/ RecvTake(e, t)
  \/ RecvTimeout(e, t)
  \/ RecvAck(e, t)
  \/ SendFin(e, t)
  \/ WaitForFin(e, t)
  \/ WaitForFlyingMsg(e, t)
  \/ WaitAsyncSendToFinish(e, t)
  \/ WaitForFlyingAck(e, t)

SpecLinkFair ==
  /\ InitLinkFair
  /\ [][NextLinkFair]_vars
  /\ \A e \in Endpoints : WF_vars(AsyncFlush(e))
  /\ \A e \in Endpoints : WF_vars(Deliver(e))
  /\ \A e \in Endpoints : \A t \in AppThreads : WF_vars(Continue(e, t))

\* One Channel in an open environment: two application threads, any
\* inbound single-frame event.
InitOpen ==
  /\ InitChannel
  /\ pc = [e \in Endpoints |-> [t \in AppThreads |-> IF e = "A" THEN "idle" ELSE "off"]]
  /\ budget = [nin |-> 0, fins |-> 0, dups |-> 0, max_in |-> MaxIn, max_dup |-> 0,
               max_send |-> [e \in Endpoints |-> MaxSend],
               chunks_given |-> {}, chunk_dups |-> 0, max_chunk_dups |-> 0]
  /\ cmsg = NoChunked
  /\ \E w \in 0..MaxWindow :
       throttle_window_size = [e \in Endpoints |-> IF e = "A" THEN w ELSE 0]

Next ==
  \/ \E t \in AppThreads : AppStep("A", t, AllKeys, {<<1>>})
  \/ Transmit("A")
  \/ Carry("A")
  \/ EnvOnMessage("A")

Spec == InitOpen /\ [][Next]_vars

\* The registry alone: any sequence of add_listener calls.
InitRegistry ==
  /\ InitChannel
  /\ throttle_window_size = [e \in Endpoints |-> 0]
  /\ pc = [e \in Endpoints |-> [t \in AppThreads |-> "off"]]
  /\ budget = [nin |-> 0, fins |-> 0, dups |-> 0, max_in |-> 0, max_dup |-> 0,
               max_send |-> [e \in Endpoints |-> 0],
               chunks_given |-> {}, chunk_dups |-> 0, max_chunk_dups |-> 0]
  /\ cmsg = NoChunked

NextRegistry ==
  \E rank \in Ranks : \E listener \in Channels : AddListener(rank, listener)

SpecRegistry == InitRegistry /\ [][NextRegistry]_vars

\* One Channel receiving a fragmented message of up to MaxChunks fragments
\* on concurrent transport threads, next to single-frame deliveries.
InitChunk ==
  /\ InitChannel
  /\ throttle_window_size = [e \in Endpoints |-> 0]
  /\ pc = [e \in Endpoints |->
            [t \in AppThreads |-> IF e = "A" /\ t = 1 THEN "idle" ELSE "off"]]
  /\ budget = [nin |-> 0, fins |-> 0, dups |-> 0, max_in |-> MaxInChunk, max_dup |-> 0,
               max_send |-> [e \in Endpoints |-> 0],
               chunks_given |-> {}, chunk_dups |-> 0, max_chunk_dups |-> 0]
  /\ \E n \in 1..MaxChunks : \E d \in [0..(n - 1) -> ChunkVals] :
       cmsg = [num_chunks |-> n, data |-> d]

NextChunk ==
  \/ \E c \in TransportThreads : ChunkArrives("A", c)
  \/ \E c \in TransportThreads : AddChunkEmplace(c)
  \/ \E c \in TransportThreads : AddChunkSize(c)
  \/ \E c \in TransportThreads : CheckFullyFilled(c)
  \/ \E c \in TransportThreads : EraseFromTable("A", c)
  \/ \E c \in TransportThreads : DoReassemble(c)
  \/ \E c \in TransportThreads : PublishReassembled("A", c)
  \/ \E key \in AllKeys : SendAsync("A", 1, key, <<1>>)
  \/ \E key \in AllKeys : Send("A", 1, key, <<1>>)
  \/ \E key \in AllKeys : Recv("A", 1, key)
  \/ RecvTake("A", 1)
  \/ RecvTimeout("A", 1)
  \/ RecvAck("A", 1)
  \/ StopReceivingAndAckUnreadMsgs("A", 1)
  \/ EnvOnMessage("A")
  \/ Transmit("A")

SpecChunk == InitChunk /\ [][NextChunk]_vars

\* One Assembler at a time, fed by a single transport thread (so that
\* add_chunk, the fullness check and reassemble never overlap), with the
\* transport delivering up to MaxChunkDups fragments a second time.
InitDup ==
  /\ InitChannel
  /\ throttle_window_size = [e \in Endpoints |-> 0]
  /\ pc = [e \in Endpoints |-> [t \in AppThreads |-> "off"]]
  /\ budget = [nin |-> 0, fins |-> 0, dups |-> 0, max_in |-> 0, max_dup |-> 0,
               max_send |-> [e \in Endpoints |-> 0],
               chunks_given |-> {}, chunk_dups |-> 0,
               max_chunk_dups |-> MaxChunkDups]
  /\ \E n \in 1..MaxChunks : \E d \in [0..(n - 1) -> ChunkVals] :
       cmsg = [num_chunks |-> n, data |-> d]

NextDup ==
  \/ ChunkArrives("A", 1)
  \/ AddChunkEmplace(1)
  \/ AddChunkSize(1)
  \/ CheckFullyFilled(1)
  \/ EraseFromTable("A", 1)
  \/ DoReassemble(1)
  \/ PublishReassembled("A", 1)

SpecDup == InitDup /\ [][NextDup]_vars

(***************************************************************************)
(* Shutdown as a barrier (SpecLink, SpecLinkFair).  In these two           *)
(* specifications the k-th message an endpoint sends carries payload <<k>>.*)
(***************************************************************************)
Finished(e) == \E t \in AppThreads : pc[e][t] = "finished"

SentBy(e) == {<<k>> : k \in 1..sent_msg_count[e]}

AppMsgsInFlight(e) ==
  {m \in BagToSet(sendq[e]) \cup BagToSet(net[e]) : ~IsReservedKey(m.key)}

\* C1: whenever wait_link_task_finish has returned at an endpoint, every
\* application message that endpoint sent has reached the peer's channel and
\* been acknowledged (ack_count covers sent_count), every application message
\* the peer sent has been received locally, and no application message the
\* receiver has not seen yet is still in flight in either direction.
C1_TotalBarrier ==
  \A e \in Endpoints :
    Finished(e) =>
      /\ ack_msg_count[e] >= sent_msg_count[e]
      /\ SentBy(e) \subseteq got[Peer(e)]
      /\ SentBy(Peer(e)) \subseteq got[e]
      /\ \A m \in AppMsgsInFlight(e) : m.val \in got[Peer(e)]
      /\ \A m \in AppMsgsInFlight(Peer(e)) : m.val \in got[e]

\* The same barrier on a transport that never duplicates (SpecLinkFair).
C1_BarrierWithoutDuplicates ==
  \A e \in Endpoints :
    Finished(e) =>
      /\ ack_msg_count[e] >= sent_msg_count[e]
      /\ SentBy(e) \subseteq got[Peer(e)]
      /\ SentBy(Peer(e)) \subseteq got[e]
      /\ AppMsgsInFlight(e) = {}
      /\ AppMsgsInFlight(Peer(e)) = {}

\* C2: on a transport that delivers every message exactly once, if both
\* endpoints have called wait_link_task_finish (after their last send) then
\* both calls return in the end, and once both have returned
\* ack_count = sent_count and received_count = peer_sent_count on both sides.
C2_ShutdownTerminates ==
  /\ (\A e \in Endpoints : InFinish(e)) ~> (\A e \in Endpoints : Finished(e))
  /\ []((\A e \in Endpoints : Finished(e)) =>
         \A e \in Endpoints :
           /\ ack_msg_count[e] = sent_msg_count[e]
           /\ received_msg_count[e] = peer_sent_msg_count[e]
           /\ peer_sent_msg_count[e] = sent_msg_count[Peer(e)])

\* Both calls have returned after A sent MaxSend messages and B sent its
\* own, one payload read by recv before shutdown and one drained unread by
\* shutdown step 1.
C2_Witness ==
  /\ \A e \in Endpoints : Finished(e)
  /\ sent_msg_count["A"] = MaxSend
  /\ sent_msg_count["B"] = MaxSend - 1
  /\ emitted["B"] = MaxSend
  /\ emitted["A"] = MaxSend - 1
  /\ \E t \in AppThreads : "inbound_store" \in acted["B"][t]
  /\ \A t \in AppThreads : "inbound_store" \notin acted["A"][t]

(***************************************************************************)
(* Throttling (Spec).                                                      *)
(***************************************************************************)
Outstanding(e) == sent_msg_count[e] - ack_msg_count[e]
InThrottle(e) == Cardinality({t \in AppThreads : pc[e][t] = "throttle"})

\* C3: with throttle_window_size = W > 0, sent_count - ack_count <= W in
\* every reachable state, for any number of sender threads and also after a
\* send has ended with ThrottleTimeout.
C3_ThrottleBound ==
  \A e \in Endpoints :
    throttle_window_size[e] > 0 => Outstanding(e) <= throttle_window_size[e]

\* C3 as amended: sent_count - ack_count <= W - 1 + (send calls now blocked
\* in the throttle wait) + (sends that ended with ThrottleTimeout).
C3_ThrottleBoundAmended ==
  \A e \in Endpoints :
    throttle_window_size[e] > 0 =>
      Outstanding(e) <= throttle_window_size[e] - 1 + InThrottle(e) + timeouts[e]

\* The window is exceeded: W = 1, one send timed out, the retry is blocked.
C3_Witness ==
  /\ throttle_window_size["A"] = 1
  /\ timeouts["A"] = 1
  /\ InThrottle("A") = 1
  /\ ack_msg_count["A"] = 0
  /\ sent_msg_count["A"] = 2

\* C4: with throttle_window_size = 2 and no ACK received, the first and the
\* second send_async return without blocking (their wait predicate holds)
\* and the third is the first to block.
C4_ThirdCallBlocks ==
  \A e \in Endpoints : \A t \in AppThreads :
    (throttle_window_size[e] = 2 /\ pc[e][t] = "throttle" /\ ack_msg_count[e] = 0) =>
      /\ loc[e][t].wait_count <= 2 => ThrottlePredicate(e, loc[e][t].wait_count)
      /\ loc[e][t].wait_count >= 3 => ~ThrottlePredicate(e, loc[e][t].wait_count)

\* C4 as amended: with throttle_window_size = 2 the first call never blocks;
\* the second call is the first that blocks: with no ACK it cannot return
\* and can only end with ThrottleTimeout, and it returns only after at
\* least one ACK has arrived.
C4_SecondCallBlocks ==
  [][\A e \in Endpoints : \A t \in AppThreads :
       (throttle_window_size[e] = 2 /\ pc[e][t] = "throttle") =>
         /\ (loc[e][t].wait_count = 1 /\ pc'[e][t] = "idle") => res'[e][t].st = "ok"
         /\ (loc[e][t].wait_count = 2 /\ pc'[e][t] = "idle" /\ ack_msg_count[e] = 0)
              => res'[e][t].st = "ThrottleTimeout"
         /\ (loc[e][t].wait_count = 2 /\ pc'[e][t] = "idle" /\ ack_msg_count[e] >= 1)
              => res'[e][t].st = "ok"]_vars

\* One thread, window 2, no ACK: its second send ended with ThrottleTimeout.
C4_Witness ==
  /\ throttle_window_size["A"] = 2
  /\ ack_msg_count["A"] = 0
  /\ sent_msg_count["A"] = 2
  /\ res["A"][1].st = "ThrottleTimeout"
  /\ res["A"][2] = NoRes /\ pc["A"][2] = "idle"

(***************************************************************************)
(* Timeouts (Spec).                                                        *)
(***************************************************************************)
\* C5: a call that ended with RecvTimeout or ThrottleTimeout has changed no
\* channel field and handed nothing to the transport.
C5_TimedOutCallChangedNothing ==
  \A e \in Endpoints : \A t \in AppThreads :
    res[e][t].st \in {"RecvTimeout", "ThrottleTimeout"} => acted[e][t] = {}

\* C5 as amended: a recv that ended with RecvTimeout has changed nothing; a
\* send that ended with ThrottleTimeout has handed its message to the
\* transport and incremented sent_count, and changed nothing else.
C5_TimedOutCallAmended ==
  \A e \in Endpoints : \A t \in AppThreads :
    /\ res[e][t].st = "RecvTimeout" => acted[e][t] = {}
    /\ res[e][t].st = "ThrottleTimeout" => acted[e][t] = {"handed", "sent_count"}

\* A send timed out in the throttle wait and a recv timed out, while
\* payloads were arriving.
C5_Witness ==
  /\ res["A"][1].st = "ThrottleTimeout"
  /\ res["A"][2].st = "RecvTimeout"
  /\ received_msg_count["A"] > 0

(***************************************************************************)
(* Duplicate keys and FIN (Spec).                                          *)
(***************************************************************************)
\* C6: when a payload is delivered for a key that is still unread in
\* inbound_store and the endpoint is not draining, the store keeps the first
\* payload, no error is raised and one ACK is emitted at once; a recv of the
\* key returns the stored (first) payload, removes it and emits one ACK.
C6_FirstWriterWins ==
  [][\A e \in Endpoints :
       /\ \A key \in AppKeys : \A v \in Payloads :
            ( /\ key \in DOMAIN msg_db[e]
              /\ ~waiting_finish[e]
              /\ received_msg_count'[e] # received_msg_count[e]
              /\ OnMessageFrame
              /\ OnMessage(e, key, v) ) =>
            /\ msg_db'[e] = msg_db[e]
            /\ cberr'[e] = "none"
            /\ emitted'[e] = emitted[e] + 1
            /\ sendq'[e] = BagAdd(sendq[e], AckMsg)
       /\ \A t \in AppThreads :
            /\ (pc[e][t] = "recv_wait" /\ pc'[e][t] = "recv_ack") =>
                 /\ loc'[e][t].val = msg_db[e][loc[e][t].key]
                 /\ loc[e][t].key \notin DOMAIN msg_db'[e]
                 /\ emitted'[e] = emitted[e]
            /\ (pc[e][t] = "recv_ack" /\ pc'[e][t] = "idle") =>
                 /\ res'[e][t] = Outcome("ok", loc[e][t].val)
                 /\ emitted'[e] = emitted[e] + 1
                 /\ sendq'[e] = BagAdd(sendq[e], AckMsg)]_vars

\* Two payloads were delivered before any call of the application: one key
\* is in the store and one ACK was emitted, so the second payload came for
\* the same key and was dropped.
C6_Witness ==
  /\ received_msg_count["A"] = 2
  /\ emitted["A"] = 1
  /\ Cardinality(DOMAIN msg_db["A"]) = 1
  /\ ~waiting_finish["A"]
  /\ \A t \in AppThreads : res["A"][t] = NoRes /\ pc["A"][t] = "idle"

\* C10: once received_fin is true it stays true and peer_sent_count no
\* longer changes; a further well-formed FIN, whatever count it carries,
\* raises no error and changes no channel field.
C10_IdempotentFin ==
  [][\A e \in Endpoints :
       /\ received_fin[e] =>
            received_fin'[e] /\ peer_sent_msg_count'[e] = peer_sent_msg_count[e]
       /\ \A n \in 0..MaxFinCount :
            ( /\ received_fin[e]
              /\ pc' = pc
              /\ OnMessageFrame
              /\ OnMessage(e, kFinKey, EncodeCount(n)) ) =>
            /\ cberr'[e] = "none"
            /\ UNCHANGED << msg_db, received_msg_count, ack_msg_count, sendq,
                            emitted, peer_sent_msg_count, received_fin >>]_vars

\* Two FINs have arrived and nothing else; the count of the first one stands.
C10_Witness ==
  /\ budget.fins = 2
  /\ received_fin["A"]
  /\ cberr["A"] = "none"
  /\ ack_msg_count["A"] = 0 /\ received_msg_count["A"] = 0
  /\ peer_sent_msg_count["A"] = MaxFinCount

(***************************************************************************)
(* Reassembly (SpecChunk): every fragment of the message cmsg is handed    *)
(* to on_chunked_message exactly once, by concurrent transport threads.    *)
(***************************************************************************)
FullPayload == ConcatFrom(cmsg.data, 0, cmsg.num_chunks - 1)

AllFragmentsHandled ==
  /\ budget.chunks_given = 0..(cmsg.num_chunks - 1)
  /\ \A c \in TransportThreads : cpc[c] = "idle"

\* C7: for a message of n fragments delivered by concurrent
\* on_chunked_message calls, at most one publication is made and exactly
\* one once every call has returned; the publication carries all n
\* fragments, and the Assembler has left chunk_table before it.
C7_ExactlyOnePublication ==
  /\ Len(pubs) <= 1
  /\ AllFragmentsHandled => Len(pubs) = 1
  /\ \A i \in 1..Len(pubs) :
       /\ ~pubs[i].in_table
       /\ ~pubs[i].overflow
       /\ Len(pubs[i].buf) = Len(FullPayload)

\* What holds of the code: exactly one publication, made after the
\* Assembler left chunk_table (the payload may be cut short, see C7).
C7_OnePublicationOnly ==
  /\ Len(pubs) <= 1
  /\ AllFragmentsHandled => Len(pubs) = 1
  /\ \A i \in 1..Len(pubs) : ~pubs[i].in_table

\* C8: whatever the arrival order of the fragments, the payload published
\* to inbound_store equals c_0 \o c_1 \o ... \o c_{n-1}.
C8_ReassemblyOrder ==
  \A i \in 1..Len(pubs) : pubs[i].buf = FullPayload

\* What holds of the code: the published payload is c_0 \o ... \o c_{n-1}
\* unless Reassemble wrote past the end of its buffer (see C7).
C8_OrderUnlessOverflow ==
  \A i \in 1..Len(pubs) : ~pubs[i].overflow => pubs[i].buf = FullPayload

(***************************************************************************)
(* Rejected operations (SpecChunk).                                        *)
(***************************************************************************)
RejectedCallFrame ==
  /\ ChanUnchanged
  /\ UNCHANGED << emitted, pubs, cpc, cloc, pc, loc >>

\* C9: send, send_async, recv and on_chunked_message with the ACK or FIN
\* key, on_chunked_message with chunk_idx >= num_chunks, and on_message with
\* the FIN key and a payload that is not 8 bytes long, raise an error in
\* every state and change nothing: no channel field, nothing handed to the
\* transport, no Assembler created, and the calling thread is free for its
\* next call.
C9_RejectedChangesNothing ==
  [][\A e \in Endpoints :
       /\ \A t \in AppThreads : \A key \in {kAckKey, kFinKey} :
            ( /\ pc[e][t] = "idle"
              /\ << pc[e][t], res[e][t], acted[e][t] >>' #
                   << pc[e][t], res[e][t], acted[e][t] >> ) =>
              /\ ENABLED Send(e, t, key, <<1>>)
              /\ ENABLED SendAsync(e, t, key, <<1>>)
              /\ ENABLED Recv(e, t, key)
              /\ ( \/ Send(e, t, key, <<1>>)
                   \/ SendAsync(e, t, key, <<1>>)
                   \/ Recv(e, t, key) ) =>
                   /\ res'[e][t].st = "InvalidKey"
                   /\ RejectedCallFrame
       /\ \A c \in TransportThreads :
            ( /\ cpc[c] = "idle"
              /\ (cberr'[e] # cberr[e] \/ cpc'[c] # cpc[c]) ) =>
              \A idx \in 0..cmsg.num_chunks : \A value \in ChunkVals :
                /\ \A key \in {kAckKey, kFinKey} :
                     OnChunkedMessage(e, c, key, value, idx, cmsg.num_chunks) =>
                       /\ cberr'[e] = "EnforceNotMet"
                       /\ RejectedCallFrame
                /\ ( /\ idx >= cmsg.num_chunks
                     /\ OnChunkedMessage(e, c, ChunkKey, value, idx,
                                         cmsg.num_chunks) ) =>
                       /\ cberr'[e] = "LogicError"
                       /\ RejectedCallFrame
       /\ \A value \in InboundValues(kFinKey) :
            ( /\ Len(value) # kSizeofSizeT
              /\ budget'.nin # budget.nin
              /\ OnMessageFrame
              /\ OnMessage(e, kFinKey, value) ) =>
              /\ cberr'[e] = "EnforceNotMet"
              /\ RejectedCallFrame]_vars

\* A recv with a reserved key and an on_chunked_message with an index out
\* of range were rejected while an Assembler was in chunk_table and a
\* payload was unread in inbound_store.
C9_Witness ==
  /\ res["A"][1].st = "InvalidKey"
  /\ cberr["A"] = "LogicError"
  /\ DOMAIN chunked_values["A"] # {}
  /\ DOMAIN msg_db["A"] # {}
  /\ received_msg_count["A"] = 1

(***************************************************************************)
(* Delivery (SpecLinkFair).                                                *)
(***************************************************************************)
\* An application message of e is in flight that the peer's on_message has
\* not been given yet.
Undelivered(e) ==
  \E m \in AppMsgsInFlight(e) : m.val \notin got[Peer(e)]

\* A recv of e is waiting for a key whose payload is in inbound_store, or
\* has taken it and not returned yet.
RecvReady(e) ==
  \E t \in AppThreads :
    \/ pc[e][t] = "recv_wait" /\ loc[e][t].key \in DOMAIN msg_db[e]
    \/ pc[e][t] = "recv_ack"

C12_OneReceiverPerEntry ==
  [][\A e \in Endpoints : \A t \in AppThreads :
       /\ (pc[e][t] = "recv_wait" /\ pc'[e][t] # "recv_wait") =>
            IF loc[e][t].key \in DOMAIN msg_db[e]
              THEN /\ pc'[e][t] = "recv_ack"
                   /\ loc'[e][t].val = msg_db[e][loc[e][t].key]
                   /\ msg_db'[e] = Restrict(msg_db[e], DOMAIN msg_db[e] \ {loc[e][t].key})
                   /\ emitted'[e] = emitted[e]
                   /\ sendq'[e] = sendq[e]
                   /\ \A u \in AppThreads \ {t} :
                        pc'[e][u] = pc[e][u] /\ loc'[e][u] = loc[e][u]
              ELSE /\ pc'[e][t] = "idle"
                   /\ res'[e][t] = Outcome("RecvTimeout", << >>)
                   /\ msg_db'[e] = msg_db[e]
                   /\ emitted'[e] = emitted[e]
                   /\ sendq'[e] = sendq[e]
       /\ (pc[e][t] = "recv_ack" /\ pc'[e][t] # "recv_ack") =>
            /\ pc'[e][t] = "idle"
            /\ res'[e][t] = Outcome("ok", loc[e][t].val)
            /\ msg_db'[e] = msg_db[e]
            /\ emitted'[e] = emitted[e] + 1
            /\ sendq'[e] = BagAdd(sendq[e], AckMsg)]_vars

\* Two recv calls for the same key and one payload ever received: one
\* call has taken it, the other is still waiting.
C12_Witness ==
  /\ pc["A"][1] = "recv_ack"
  /\ pc["A"][2] = "recv_wait"
  /\ loc["A"][2].key = loc["A"][1].key
  /\ received_msg_count["A"] = 1
  /\ msg_db["A"] = << >>

(***************************************************************************)
(* Receiver Loop Registry (SpecRegistry).                                  *)
(***************************************************************************)
\* C13: add_listener(rank, channel) for a rank that is registered raises
\* the duplicate-listener error and leaves the registry as it was; for a
\* rank that is not registered it registers the channel without error; and
\* a registered rank keeps its channel, the first one registered, through
\* every later call.
C13_FirstListenerStays ==
  [][\A rank \in Ranks :
       /\ rank \in DOMAIN listeners =>
            (rank \in DOMAIN listeners' /\ listeners'[rank] = listeners[rank])
       /\ \A listener \in Channels :
            AddListener(rank, listener) =>
              IF rank \in DOMAIN listeners
                THEN add_listener_err' = "LogicError" /\ listeners' = listeners
                ELSE /\ add_listener_err' = "none"
                     /\ DOMAIN listeners' = DOMAIN listeners \cup {rank}
                     /\ listeners'[rank] = listener]_vars

\* A registration failed after every rank had been registered.
C13_Witness ==
  /\ add_listener_err = "LogicError"
  /\ DOMAIN listeners = Ranks
  /\ listeners[0] # listeners[1]

(***************************************************************************)
(* Drain mode (SpecChunk).                                                 *)
(***************************************************************************)
\* C14: waiting_finish never goes back to false; while it is true
\* inbound_store is empty; and every application payload that arrives while
\* it is true, single-frame or reassembled, is discarded, increments
\* received_count by one and makes the endpoint emit exactly one ACK.
C14_DrainMode ==
  /\ [](\A e \in Endpoints : waiting_finish[e] => msg_db[e] = << >>)
  /\ [][\A e \in Endpoints :
          /\ waiting_finish[e] => waiting_finish'[e]
          /\ waiting_finish[e] =>
               /\ \A key \in AppKeys : \A v \in Payloads :
                    ( /\ budget'.nin # budget.nin
                      /\ OnMessageFrame
                      /\ OnMessage(e, key, v) ) =>
                    /\ msg_db'[e] = << >>
                    /\ received_msg_count'[e] = received_msg_count[e] + 1
                    /\ emitted'[e] = emitted[e] + 1
                    /\ sendq'[e] = BagAdd(sendq[e], AckMsg)
               /\ \A c \in TransportThreads :
                    (cpc[c] = "publish" /\ cpc'[c] # "publish") =>
                    /\ Len(pubs') = Len(pubs) + 1
                    /\ msg_db'[e] = << >>
                    /\ received_msg_count'[e] = received_msg_count[e] + 1
                    /\ emitted'[e] = emitted[e] + 1
                    /\ sendq'[e] = BagAdd(sendq[e], AckMsg)]_vars

\* A single-frame payload and a reassembled payload both arrived while the
\* endpoint was draining: the drain found nothing to acknowledge, no call
\* has returned since, two payloads were counted and two ACKs emitted.
C14_Witness ==
  /\ waiting_finish["A"]
  /\ acted["A"][1] = {"waiting_finish"}
  /\ Len(pubs) = 1 /\ pubs[1].draining
  /\ budget.nin = 1
  /\ received_msg_count["A"] = 2
  /\ emitted["A"] = 2
  /\ \A c \in TransportThreads : cpc[c] = "idle"

(***************************************************************************)
(* Order of the shutdown steps (Spec).                                     *)
(***************************************************************************)
ShutdownOrder ==
  << "idle", "send_fin", "wait_fin", "wait_msg", "wait_async", "wait_ack",
     "finished" >>

\* C15: the positions of a wait_link_task_finish call follow one another
\* in the order step 1, FIN, wait for FIN, wait for messages, wait for the
\* async queue, wait for ACKs.  The FIN is handed over with waiting_finish
\* set and inbound_store empty, and carries sent_count as it is then, in 8
\* bytes; the wait for the async queue starts only with received_fin true
\* and received_count >= peer_sent_count; the wait for ACKs starts only
\* with the async queue empty; the call returns only with
\* ack_count >= sent_count.
C15_ShutdownOrder ==
  [][\A e \in Endpoints : \A t \in AppThreads :
       (pc[e][t] \in FinishPcs /\ pc'[e][t] # pc[e][t]) =>
         /\ \E i \in 2..6 : pc[e][t] = ShutdownOrder[i] /\ pc'[e][t] = ShutdownOrder[i + 1]
         /\ pc[e][t] = "send_fin" =>
              /\ waiting_finish[e]
              /\ msg_db[e] = << >>
              /\ \E m \in BagToSet(sendq'[e]) :
                   /\ sendq'[e] = BagAdd(sendq[e], m)
                   /\ m.key = kFinKey
                   /\ Len(m.val) = kSizeofSizeT
                   /\ DecodeCount(m.val) = sent_msg_count[e]
         /\ pc[e][t] = "wait_fin" => received_fin[e]
         /\ pc[e][t] = "wait_msg" =>
              received_fin[e] /\ received_msg_count[e] >= peer_sent_msg_count[e]
         /\ pc[e][t] = "wait_async" => sendq[e] = EmptyBag
         /\ pc[e][t] = "wait_ack" => ack_msg_count[e] >= sent_msg_count[e]]_vars

\* A call has returned after the endpoint sent one message, which was
\* acknowledged, and the peer's FIN arrived.
C15_Witness ==
  /\ Finished("A")
  /\ sent_msg_count["A"] = 1
  /\ ack_msg_count["A"] = 1
  /\ budget.fins = 1
  /\ received_fin["A"]

(***************************************************************************)
(* Shutdown step 1 (Spec).                                                 *)
(***************************************************************************)
\* C16: the step in which wait_link_task_finish starts, with m entries in
\* inbound_store, hands exactly m ACKs to the transport, leaves
\* inbound_store empty and sets waiting_finish, all in one step with
\* respect to deliveries and recv calls (no thread of the endpoint moves in
\* it, no delivery happens in it), and changes none of sent_count,
\* received_count and ack_count.
C16_StepOneAcksUnread ==
  [][\A e \in Endpoints : \A t \in AppThreads :
       (pc[e][t] = "idle" /\ pc'[e][t] = "send_fin") =>
         /\ emitted'[e] = emitted[e] + Cardinality(DOMAIN msg_db[e])
         /\ sendq'[e] = sendq[e] (+) Copies(AckMsg, Cardinality(DOMAIN msg_db[e]))
         /\ msg_db'[e] = << >>
         /\ waiting_finish'[e]
         /\ UNCHANGED << sent_msg_count, received_msg_count, ack_msg_count,
                         peer_sent_msg_count, received_fin, net, budget >>
         /\ \A u \in AppThreads \ {t} :
              pc'[e][u] = pc[e][u] /\ loc'[e][u] = loc[e][u]]_vars

\* Step 1 has just run with one unread entry: one payload was ever
\* received, the step emptied the store and handed one ACK over, which is
\* the only ACK emitted.
C16_Witness ==
  /\ pc["A"][1] = "send_fin"
  /\ acted["A"][1] = {"waiting_finish", "inbound_store", "handed"}
  /\ received_msg_count["A"] = 1
  /\ emitted["A"] = 1
  /\ sendq["A"] = SetToBag({AckMsg})
  /\ pc["A"][2] = "recv_wait"

(***************************************************************************)
(* When the receiver emits an ACK (Spec).                                  *)
(***************************************************************************)
\* An application payload is given to on_message of e in this step.
PayloadArrives(e, key, v) ==
  /\ budget'.nin # budget.nin
  /\ OnMessageFrame
  /\ OnMessage(e, key, v)

\* C17: every call of on_normal_message, whether it inserts the payload
\* into inbound_store or drops it, emits one ACK during that call.
C17_AckOnEveryArrival ==
  [][\A e \in Endpoints : \A key \in AppKeys : \A v \in Payloads :
       PayloadArrives(e, key, v) =>
         /\ emitted'[e] = emitted[e] + 1
         /\ sendq'[e] = BagAdd(sendq[e], AckMsg)]_vars

\* C17 as amended: on_normal_message emits one ACK during the call when it
\* drops the payload (duplicate key, or draining) and none when it inserts
\* it; the ACK of an inserted payload is emitted later, by the recv that
\* reads it or by shutdown step 1, so while a payload stays unread in the
\* store the endpoint has emitted fewer ACKs than it received payloads.
C17_AckOnDropOnly ==
  /\ [][\A e \in Endpoints : \A key \in AppKeys : \A v \in Payloads :
          PayloadArrives(e, key, v) =>
            IF ~waiting_finish[e] /\ key \notin DOMAIN msg_db[e]
              THEN /\ key \in DOMAIN msg_db'[e]
                   /\ emitted'[e] = emitted[e]
                   /\ sendq'[e] = sendq[e]
              ELSE /\ msg_db'[e] = msg_db[e]
                   /\ emitted'[e] = emitted[e] + 1
                   /\ sendq'[e] = BagAdd(sendq[e], AckMsg)]_vars
  /\ [](\A e \in Endpoints :
          DOMAIN msg_db[e] # {} => emitted[e] < received_msg_count[e])

\* Two payloads were received and stored under two keys, no call of the
\* application has been made, and no ACK has been emitted.
C17_Witness ==
  /\ received_msg_count["A"] = 2
  /\ Cardinality(DOMAIN msg_db["A"]) = 2
  /\ emitted["A"] = 0
  /\ sendq["A"] = EmptyBag
  /\ \A t \in AppThreads : res["A"][t] = NoRes /\ pc["A"][t] = "idle"

(***************************************************************************)
(* Counters (Spec).                                                        *)
(***************************************************************************)
\* A control message (ACK or FIN) is given to on_message of e in this step.
ControlArrives(e, key, value) ==
  /\ budget'.nin # budget.nin
  /\ OnMessageFrame
  /\ OnMessage(e, key, value)

\* C18: received_count >= |inbound_store| in every state; sent_count,
\* received_count and ack_count never decrease; an application payload
\* given to on_message adds exactly one to received_count, whether it is
\* stored or dropped, and nothing to ack_count; an ACK adds exactly one to
\* ack_count, without error also beyond sent_count; an ACK or a FIN changes
\* neither received_count nor inbound_store.
C18_Counters ==
  /\ [](\A e \in Endpoints :
          received_msg_count[e] >= Cardinality(DOMAIN msg_db[e]))
  /\ [][\A e \in Endpoints :
          /\ sent_msg_count'[e] >= sent_msg_count[e]
          /\ received_msg_count'[e] >= received_msg_count[e]
          /\ ack_msg_count'[e] >= ack_msg_count[e]
          /\ budget'.nin # budget.nin =>
               /\ \A key \in AppKeys : \A v \in Payloads :
                    PayloadArrives(e, key, v) =>
                      /\ received_msg_count'[e] = received_msg_count[e] + 1
                      /\ ack_msg_count'[e] = ack_msg_count[e]
               /\ ControlArrives(e, kAckKey, << >>) =>
                    /\ ack_msg_count'[e] = ack_msg_count[e] + 1
                    /\ cberr'[e] = "none"
                    /\ received_msg_count'[e] = received_msg_count[e]
                    /\ msg_db'[e] = msg_db[e]
               /\ \A value \in InboundValues(kFinKey) :
                    ControlArrives(e, kFinKey, value) =>
                      /\ ack_msg_count'[e] = ack_msg_count[e]
                      /\ received_msg_count'[e] = received_msg_count[e]
                      /\ msg_db'[e] = msg_db[e]]_vars

\* Two ACKs have arrived for one message sent, without error.
C18_Witness ==
  /\ sent_msg_count["A"] = 1
  /\ ack_msg_count["A"] = 2
  /\ cberr["A"] = "none"
  /\ received_msg_count["A"] = 0

(***************************************************************************)
(* ACK conservation (Spec).                                                *)
(***************************************************************************)
\* The recv calls of e that have removed their entry and not yet emitted
\* their ACK.
TakenNotAcked(e) == Cardinality({t \in AppThreads : pc[e][t] = "recv_ack"})

\* C19: in every state the number of ACKs an endpoint has emitted equals
\* received_count minus |inbound_store| minus the number of recv calls that
\* have removed their entry but not yet emitted their ACK; so it never
\* exceeds received_count, and a payload that is unread in the store has
\* not been acknowledged.
C19_AckConservation ==
  \A e \in Endpoints :
    /\ emitted[e] = received_msg_count[e] - Cardinality(DOMAIN msg_db[e])
                      - TakenNotAcked(e)
    /\ emitted[e] <= received_msg_count[e]

\* Of two payloads received, one is unread in the store and one
\* has been taken by a recv that has not emitted its ACK yet.
C19_Witness ==
  /\ received_msg_count["A"] = 2
  /\ Cardinality(DOMAIN msg_db["A"]) = 1
  /\ TakenNotAcked("A") = 1
  /\ emitted["A"] = 0

(***************************************************************************)
(* Size of the reassembled buffer (SpecDup).                               *)
(***************************************************************************)
\* C20: for every sequence of add_chunk calls on one Assembler, also when
\* an index is delivered more than once before the Assembler is full, the
\* buffer made by reassemble() is exactly the concatenation of the
\* fragments the Assembler holds, one per index, with no extra bytes; after
\* reassemble() the Assembler holds no fragment and its size counter is 0.
C20_ReassembledSize ==
  /\ \A i \in 1..Len(pubs) :
       /\ Len(pubs[i].buf) = Len(FullPayload)
       /\ pubs[i].buf = FullPayload
  /\ \A c \in TransportThreads :
       cpc[c] = "publish" =>
         /\ cloc[c].buf = FullPayload
         /\ asm[cloc[c].data].chunks = << >>
         /\ asm[cloc[c].data].message_size = 0

\* What holds of the code: the buffer starts with the concatenation of the
\* fragments held and is at least that long, and reassemble() leaves the
\* Assembler empty with a size counter of 0.
C20_PrefixOnly ==
  /\ \A i \in 1..Len(pubs) :
       /\ ~pubs[i].overflow
       /\ Len(pubs[i].buf) >= Len(FullPayload)
       /\ SubSeq(pubs[i].buf, 1, Len(FullPayload)) = FullPayload
  /\ \A c \in TransportThreads :
       cpc[c] = "publish" =>
         /\ asm[cloc[c].data].chunks = << >>
         /\ asm[cloc[c].data].message_size = 0

====
